---------------------------- MODULE Spec2Model ----------------------------
(***************************************************************************)
(* State-machine model of the Life_tracker web client.                     *)
(*                                                                         *)
(*   Journal      src/frontend/src/components/Journal.jsx  lines 15-320    *)
(*   LifeTracker  src/frontend/src/components/Journal.jsx  lines 340-745   *)
(*   Weekly stats src/frontend/src/components/WeeklyProgress.jsx           *)
(*   App shell and Dashboard   src/unnamed/part_000                        *)
(*                                                                         *)
(* The REST server is not part of the source tree.  Its handlers are       *)
(* modelled from the interface section of the specification (one journal   *)
(* entry per date, upsert of progress entries, ids never reused) and are   *)
(* the definitions whose names start with "Server".                        *)
(*                                                                         *)
(* Every asynchronous function of the client is split at its await: one    *)
(* action for the synchronous part that issues the request, one server     *)
(* action that answers it (or a network action that fails it), and one     *)
(* action for the continuation that runs when the response is delivered.   *)
(***************************************************************************)
EXTENDS Integers, Sequences, FiniteSets, TLC

VARIABLES
    \* ---- server: journal entries
    journalStore,     \* date -> [present, content]
    \* ---- Journal view
    selectedDate, journalContent, isEditing, entries, loading, hasEntry,
    jReqs,            \* slot -> request of the Journal view in flight
    \* ---- server: life tasks and progress entries
    serverTasks,      \* the task records the server holds
    nextTaskId,       \* the id the next created task gets
    serverProgress,   \* the progress entries: [task_id, date, progress_value]
    \* ---- LifeTracker view
    tasks, ltLoading, selectedTask, isAddingTask, taskForm, todayProgress,
    tReqs,            \* slot -> request of the LifeTracker view in flight
    issued,           \* number of task and progress changes the user has started
    \* ---- WeeklyProgress view
    wTasks, wSelectedTask, selectedWeek, wLoading,
    wReqs,            \* slot -> request of the WeeklyProgress view in flight
    weekdayToday,     \* the day of the week of today, 0 for Monday
    \* ---- App shell
    currentView, appLoading,
    probe,            \* the connectivity check: sent, ok, error, done
    \* ---- Dashboard
    stats, dashLoading,
    dashFetch,        \* fetchDashboardStats: none, sent, ok, error, done_ok, done_failed
    dashReply,        \* the stats object of the response
    dashGets,         \* GET /stats/dashboard issued by the mounted Dashboard
    \* ---- WeeklyProgress statistics and the progress bar, as rendered
    weeklyData, weekStats, barProgress, barTarget, barWidth,
    \* ---- notifications and uncaught rejections (all views)
    toast, unhandled

varsJournal == <<journalStore, selectedDate, journalContent, isEditing,
                 entries, loading, hasEntry, jReqs>>
varsApp == <<currentView, appLoading, probe, stats, dashLoading, dashFetch,
             dashReply, dashGets>>
varsCalc == <<weeklyData, weekStats, barProgress, barTarget, barWidth>>
varsTracker == <<serverTasks, nextTaskId, serverProgress, tasks, ltLoading,
                 selectedTask, isAddingTask, taskForm, todayProgress, tReqs,
                 issued>>
varsWeekly == <<wTasks, wSelectedTask, selectedWeek, wLoading, wReqs,
                weekdayToday>>
varsShared == <<toast, unhandled>>
vars == <<varsJournal, varsTracker, varsWeekly, varsApp, varsCalc, varsShared>>

----------------------------------------------------------------------------
(* Bounds of the model *)

\* journal text is a sequence of at most MaxLen characters
MaxLen == 1
\* calendar days the user can pick; day 1 is today
NumDates == 2
\* requests of one view that can be in flight together
MaxInFlight == 2
\* ids the server can give to life tasks
MaxTaskIds == 2
\* task and progress changes the user starts in one session
MaxIssued == 2
\* week offsets the user picks, out of the offered 0 to 4
MaxWeek == 3
\* largest count the dashboard statistics report
MaxCount == 2
\* progress values and targets the progress bar is rendered for
MaxProgress == 60
MaxTarget == 50

Chars == {" ", "a"}
Contents == UNION {[1..n -> Chars] : n \in 0..MaxLen}
Dates == 1..NumDates
Today == 1
Slots == 1..MaxInFlight
TaskIds == 1..MaxTaskIds
\* what the user types into the target field, after parseInt
TypedTargets == {[nan |-> TRUE, n |-> 0], [nan |-> FALSE, n |-> 0],
                 [nan |-> FALSE, n |-> 20], [nan |-> FALSE, n |-> 50]}
\* positions the user drags a slider to
SliderSamples == {30, 100}
\* values a day of the weekly series takes
DayValues == {0, 5, 10, 20}

----------------------------------------------------------------------------
(* Strings *)

IsWhiteSpace(c) == c = " "

RECURSIVE TrimStart(_)
TrimStart(s) ==
    IF s = <<>> THEN s
    ELSE IF IsWhiteSpace(Head(s)) THEN TrimStart(Tail(s)) ELSE s

RECURSIVE TrimEnd(_)
TrimEnd(s) ==
    IF s = <<>> THEN s
    ELSE IF IsWhiteSpace(s[Len(s)]) THEN TrimEnd(SubSeq(s, 1, Len(s) - 1)) ELSE s

\* String.prototype.trim
Trim(s) == TrimEnd(TrimStart(s))

----------------------------------------------------------------------------
(* Requests in flight *)

ToastNone == "none"

NoReq == [kind |-> "none", date |-> 0, content |-> <<>>, status |-> "none",
          data |-> <<>>, list |-> {}]

Req(kind, date, content) ==
    [kind |-> kind, date |-> date, content |-> content, status |-> "sent",
     data |-> <<>>, list |-> {}]

FreeSlots(reqs) == {s \in Slots : reqs[s].kind = "none"}

\* the slot a new request takes
FreeSlot(reqs) == CHOOSE s \in FreeSlots(reqs) : \A t \in FreeSlots(reqs) : s <= t

Send(reqs, r) == [reqs EXCEPT ![FreeSlot(reqs)] = r]

Settled(r) == r.kind # "none" /\ r.status # "sent"

----------------------------------------------------------------------------
(* Server: journal entries *)

NoEntry == [present |-> FALSE, content |-> <<>>]
Entry(c) == [present |-> TRUE, content |-> c]

\* GET /journal-entries/{date}: the entry; absence is a not-found status
\* (the client also accepts an empty body)
ServerGetEntry(store, r, absent) ==
    IF store[r.date].present
    THEN [store |-> store,
          reply |-> [r EXCEPT !.status = "ok", !.data = store[r.date].content]]
    ELSE [store |-> store, reply |-> [r EXCEPT !.status = absent]]

\* GET /journal-entries: every entry
ServerListEntries(store, r) ==
    [store |-> store,
     reply |-> [r EXCEPT !.status = "ok",
                         !.list = {d \in Dates : store[d].present}]]

\* POST /journal-entries: creates the entry of a date that has none
ServerPostEntry(store, r) ==
    IF store[r.date].present
    THEN [store |-> store, reply |-> [r EXCEPT !.status = "error"]]
    ELSE [store |-> [store EXCEPT ![r.date] = Entry(r.content)],
          reply |-> [r EXCEPT !.status = "ok"]]

\* PUT /journal-entries/{date}: replaces the content of an existing entry
ServerPutEntry(store, r) ==
    IF store[r.date].present
    THEN [store |-> [store EXCEPT ![r.date] = Entry(r.content)],
          reply |-> [r EXCEPT !.status = "ok"]]
    ELSE [store |-> store, reply |-> [r EXCEPT !.status = "error"]]

\* DELETE /journal-entries/{date}
ServerDeleteEntry(store, r) ==
    IF store[r.date].present
    THEN [store |-> [store EXCEPT ![r.date] = NoEntry],
          reply |-> [r EXCEPT !.status = "ok"]]
    ELSE [store |-> store, reply |-> [r EXCEPT !.status = "error"]]

ServerJournal(store, r, absent) ==
    CASE r.kind = "GET_ENTRY" -> ServerGetEntry(store, r, absent)
      [] r.kind = "LIST" -> ServerListEntries(store, r)
      [] r.kind = "POST" -> ServerPostEntry(store, r)
      [] r.kind = "PUT" -> ServerPutEntry(store, r)
      [] r.kind = "DELETE" -> ServerDeleteEntry(store, r)

\* the server answers one request of the Journal view
JournalServe(s) ==
    /\ jReqs[s].status = "sent"
    /\ \E absent \in {"notfound", "empty"} :
          LET out == ServerJournal(journalStore, jReqs[s], absent) IN
          /\ journalStore' = out.store
          /\ jReqs' = [jReqs EXCEPT ![s] = out.reply]
    /\ UNCHANGED <<selectedDate, journalContent, isEditing, entries, loading,
                   hasEntry, varsShared>>
    /\ UNCHANGED <<varsTracker, varsWeekly, varsApp, varsCalc>>

\* a request fails without reaching the server (connection error, 5xx)
JournalNetFail(s) ==
    /\ jReqs[s].status = "sent"
    /\ jReqs' = [jReqs EXCEPT ![s].status = "error"]
    /\ UNCHANGED <<journalStore, selectedDate, journalContent, isEditing,
                   entries, loading, hasEntry, varsShared>>
    /\ UNCHANGED <<varsTracker, varsWeekly, varsApp, varsCalc>>

----------------------------------------------------------------------------
(* Journal view *)

\* the synchronous part of fetchJournalEntryByDate: setLoading, axios.get
StartFetchEntry(reqs, date) == Send(reqs, Req("GET_ENTRY", date, <<>>))

\* the synchronous part of fetchJournalEntries
StartFetchEntries(reqs) == Send(reqs, Req("LIST", 0, <<>>))

\* Calendar onSelect and the recent-entry click: setSelectedDate, then the
\* effect on selectedDate calls fetchJournalEntryByDate
SelectDate(d) ==
    /\ FreeSlots(jReqs) # {}
    /\ selectedDate' = d
    /\ loading' = TRUE
    /\ jReqs' = StartFetchEntry(jReqs, d)
    /\ UNCHANGED <<journalStore, journalContent, isEditing, entries, hasEntry,
                   unhandled>>
    /\ toast' = ToastNone
    /\ UNCHANGED <<varsTracker, varsWeekly, varsApp, varsCalc>>

\* variant: a 404 is handled like every other failure
FetchEntryStatusNotFoundAsError(r, cur) ==
    CASE r.status = "ok" ->
            [content |-> r.data, hasEntry |-> TRUE, isEditing |-> FALSE,
             toast |-> ToastNone, unhandled |-> cur.unhandled]
      [] r.status = "empty" ->
            [content |-> <<>>, hasEntry |-> FALSE, isEditing |-> TRUE,
             toast |-> ToastNone, unhandled |-> cur.unhandled]
      [] OTHER ->
            [content |-> cur.content, hasEntry |-> cur.hasEntry,
             isEditing |-> cur.isEditing, toast |-> "load_entry_failed",
             unhandled |-> cur.unhandled]

\* variant: a failure resets the editor like an absent entry
FetchEntryErrorResets(r, cur) ==
    CASE r.status = "ok" ->
            [content |-> r.data, hasEntry |-> TRUE, isEditing |-> FALSE,
             toast |-> ToastNone, unhandled |-> cur.unhandled]
      [] OTHER ->
            [content |-> <<>>, hasEntry |-> FALSE, isEditing |-> TRUE,
             toast |-> IF r.status = "error" THEN "load_entry_failed"
                       ELSE ToastNone,
             unhandled |-> cur.unhandled]

\* variant: a response for a date that is no longer selected is dropped
FetchEntryOutcomeForSelection(r, cur) ==
    CASE r.date # selectedDate ->
            [content |-> cur.content, hasEntry |-> cur.hasEntry,
             isEditing |-> cur.isEditing, toast |-> ToastNone,
             unhandled |-> cur.unhandled]
      [] r.status = "ok" ->
            [content |-> r.data, hasEntry |-> TRUE, isEditing |-> FALSE,
             toast |-> ToastNone, unhandled |-> cur.unhandled]
      [] r.status \in {"empty", "notfound"} ->
            [content |-> <<>>, hasEntry |-> FALSE, isEditing |-> TRUE,
             toast |-> ToastNone, unhandled |-> cur.unhandled]
      [] OTHER ->
            [content |-> cur.content, hasEntry |-> cur.hasEntry,
             isEditing |-> cur.isEditing, toast |-> "load_entry_failed",
             unhandled |-> cur.unhandled]

\* what the continuation of fetchJournalEntryByDate sets, from the response
\* and the current state
FetchEntryOutcome(r, cur) ==
    CASE r.status = "ok" ->
            [content |-> r.data, hasEntry |-> TRUE, isEditing |-> FALSE,
             toast |-> ToastNone, unhandled |-> cur.unhandled]
      [] r.status = "empty" ->
            [content |-> <<>>, hasEntry |-> FALSE, isEditing |-> TRUE,
             toast |-> ToastNone, unhandled |-> cur.unhandled]
      [] r.status = "notfound" ->
            [content |-> <<>>, hasEntry |-> FALSE, isEditing |-> TRUE,
             toast |-> ToastNone, unhandled |-> cur.unhandled]
      [] OTHER ->
            [content |-> cur.content, hasEntry |-> cur.hasEntry,
             isEditing |-> cur.isEditing, toast |-> "load_entry_failed",
             unhandled |-> cur.unhandled]

JournalCur ==
    [content |-> journalContent, hasEntry |-> hasEntry, isEditing |-> isEditing,
     toast |-> toast, unhandled |-> unhandled]

\* the continuation of fetchJournalEntryByDate
FetchEntryDone(s) ==
    /\ jReqs[s].kind = "GET_ENTRY"
    /\ Settled(jReqs[s])
    /\ LET out == FetchEntryOutcome(jReqs[s], JournalCur) IN
          /\ journalContent' = out.content
          /\ hasEntry' = out.hasEntry
          /\ isEditing' = out.isEditing
          /\ toast' = out.toast
          /\ unhandled' = out.unhandled
    /\ loading' = FALSE
    /\ jReqs' = [jReqs EXCEPT ![s] = NoReq]
    /\ UNCHANGED <<journalStore, selectedDate, entries>>
    /\ UNCHANGED <<varsTracker, varsWeekly, varsApp, varsCalc>>

\* the continuation of fetchJournalEntries
FetchEntriesDone(s) ==
    /\ jReqs[s].kind = "LIST"
    /\ Settled(jReqs[s])
    /\ IF jReqs[s].status = "ok"
       THEN entries' = jReqs[s].list /\ toast' = ToastNone
       ELSE entries' = entries /\ toast' = "load_entries_failed"
    /\ jReqs' = [jReqs EXCEPT ![s] = NoReq]
    /\ UNCHANGED <<journalStore, selectedDate, journalContent, isEditing,
                   loading, hasEntry, unhandled>>
    /\ UNCHANGED <<varsTracker, varsWeekly, varsApp, varsCalc>>

\* the controls the Journal view renders enabled
EditShown == hasEntry /\ ~isEditing
DeleteEnabled == hasEntry /\ ~loading
SaveEnabled == isEditing /\ ~loading
TextareaShown == isEditing

\* Edit button
EditClick ==
    /\ EditShown
    /\ isEditing' = TRUE
    /\ UNCHANGED <<journalStore, selectedDate, journalContent, entries, loading,
                   hasEntry, jReqs, unhandled>>
    /\ toast' = ToastNone
    /\ UNCHANGED <<varsTracker, varsWeekly, varsApp, varsCalc>>

\* Textarea onChange
TypeContent(c) ==
    /\ TextareaShown
    /\ journalContent' = c
    /\ UNCHANGED <<journalStore, selectedDate, isEditing, entries, loading,
                   hasEntry, jReqs, unhandled>>
    /\ toast' = ToastNone
    /\ UNCHANGED <<varsTracker, varsWeekly, varsApp, varsCalc>>

\* variant: only the empty string is rejected
SaveRejectedOnlyEmpty(content) == content = <<>>

\* the validation of saveJournalEntry
SaveRejected(content) == Trim(content) = <<>>

\* variant: every save is a POST
SaveRequestAlwaysPost(has, date, content) == Req("POST", date, content)

\* the request saveJournalEntry issues
SaveRequest(has, date, content) ==
    IF has THEN Req("PUT", date, content) ELSE Req("POST", date, content)

\* Save button: the synchronous part of saveJournalEntry
SaveClick ==
    /\ SaveEnabled
    /\ IF SaveRejected(journalContent)
       THEN /\ toast' = "entry_empty"
            /\ UNCHANGED <<loading, jReqs>>
       ELSE /\ FreeSlots(jReqs) # {}
            /\ loading' = TRUE
            /\ jReqs' = Send(jReqs, SaveRequest(hasEntry, selectedDate,
                                                journalContent))
            /\ toast' = ToastNone
    /\ UNCHANGED <<journalStore, selectedDate, journalContent, isEditing,
                   entries, hasEntry, unhandled>>
    /\ UNCHANGED <<varsTracker, varsWeekly, varsApp, varsCalc>>

\* the continuation of saveJournalEntry
SaveDone(s) ==
    /\ jReqs[s].kind \in {"POST", "PUT"}
    /\ Settled(jReqs[s])
    /\ IF jReqs[s].status = "ok"
       THEN /\ hasEntry' = (IF jReqs[s].kind = "POST" THEN TRUE ELSE hasEntry)
            /\ toast' = (IF jReqs[s].kind = "POST" THEN "entry_created"
                         ELSE "entry_updated")
            /\ isEditing' = FALSE
            /\ jReqs' = StartFetchEntries([jReqs EXCEPT ![s] = NoReq])
       ELSE /\ toast' = "save_failed"
            /\ jReqs' = [jReqs EXCEPT ![s] = NoReq]
            /\ UNCHANGED <<hasEntry, isEditing>>
    /\ loading' = FALSE
    /\ UNCHANGED <<journalStore, selectedDate, journalContent, entries,
                   unhandled>>
    /\ UNCHANGED <<varsTracker, varsWeekly, varsApp, varsCalc>>

\* variant: the answer to confirm() is ignored
DeleteRejectedWithoutEntry(has, confirmed) == ~has

\* the two early returns of deleteJournalEntry: no entry, or confirm() declined
DeleteRejected(has, confirmed) == ~has \/ ~confirmed

\* Delete button: the synchronous part of deleteJournalEntry
DeleteClick(confirmed) ==
    /\ DeleteEnabled
    /\ IF DeleteRejected(hasEntry, confirmed)
       THEN UNCHANGED <<loading, jReqs>>
       ELSE /\ FreeSlots(jReqs) # {}
            /\ loading' = TRUE
            /\ jReqs' = Send(jReqs, Req("DELETE", selectedDate, <<>>))
    /\ UNCHANGED <<journalStore, selectedDate, journalContent, isEditing,
                   entries, hasEntry, unhandled>>
    /\ toast' = ToastNone
    /\ UNCHANGED <<varsTracker, varsWeekly, varsApp, varsCalc>>

\* the continuation of deleteJournalEntry
DeleteDone(s) ==
    /\ jReqs[s].kind = "DELETE"
    /\ Settled(jReqs[s])
    /\ IF jReqs[s].status = "ok"
       THEN /\ journalContent' = <<>>
            /\ hasEntry' = FALSE
            /\ isEditing' = TRUE
            /\ toast' = "entry_deleted"
            /\ jReqs' = StartFetchEntries([jReqs EXCEPT ![s] = NoReq])
       ELSE /\ toast' = "delete_failed"
            /\ jReqs' = [jReqs EXCEPT ![s] = NoReq]
            /\ UNCHANGED <<journalContent, hasEntry, isEditing>>
    /\ loading' = FALSE
    /\ UNCHANGED <<journalStore, selectedDate, entries, unhandled>>
    /\ UNCHANGED <<varsTracker, varsWeekly, varsApp, varsCalc>>

----------------------------------------------------------------------------
(* App shell and Dashboard *)

Views == {"dashboard", "journal", "life-tracker"}

DefaultStats ==
    [total_journal_entries |-> 0, total_life_tasks |-> 0,
     has_today_journal |-> FALSE, today_progress_count |-> 0]

\* GET /stats/dashboard: the aggregate counts the server can report
ServerStats ==
    {st \in [total_journal_entries : 0..MaxCount, total_life_tasks : 0..MaxCount,
             has_today_journal : BOOLEAN, today_progress_count : 0..MaxCount] :
        /\ st.has_today_journal => st.total_journal_entries >= 1
        /\ st.today_progress_count <= st.total_life_tasks}

\* the state of a Dashboard that is not mounted
DashboardGone ==
    [stats |-> DefaultStats, loading |-> TRUE, fetch |-> "none", gets |-> 0]

\* useState defaults, then the mount effect calls fetchDashboardStats
DashboardMount ==
    [stats |-> DefaultStats, loading |-> TRUE, fetch |-> "sent", gets |-> 1]

\* variant: a failed request is sent again
StatsFetchedRetries(ok, reply, cur) ==
    IF ok
    THEN [stats |-> reply, loading |-> FALSE, fetch |-> "done_ok",
          gets |-> cur.gets]
    ELSE [stats |-> cur.stats, loading |-> cur.loading, fetch |-> "sent",
          gets |-> cur.gets + 1]

\* the continuation of fetchDashboardStats, from its outcome
StatsFetched(ok, reply, cur) ==
    IF ok
    THEN [stats |-> reply, loading |-> FALSE, fetch |-> "done_ok",
          gets |-> cur.gets]
    ELSE [stats |-> cur.stats, loading |-> FALSE, fetch |-> "done_failed",
          gets |-> cur.gets]

DashboardCur ==
    [stats |-> stats, loading |-> dashLoading, fetch |-> dashFetch,
     gets |-> dashGets]

SetDashboard(d) ==
    /\ stats' = d.stats
    /\ dashLoading' = d.loading
    /\ dashFetch' = d.fetch
    /\ dashGets' = d.gets

\* renderContent: the view the shell renders for a view selector
RenderedView(v) ==
    CASE v = "journal" -> "Journal"
      [] v = "life-tracker" -> "LifeTracker"
      [] OTHER -> "Dashboard"

DashboardMounted == ~appLoading /\ RenderedView(currentView) = "Dashboard"

\* the Dashboard shows its cards and quick actions, not the skeleton
DashboardRendered == DashboardMounted /\ ~dashLoading

\* the server answers the connectivity check
ProbeServe ==
    /\ probe = "sent"
    /\ probe' = "ok"
    /\ UNCHANGED <<currentView, appLoading, stats, dashLoading, dashFetch,
                   dashReply, dashGets, varsShared>>
    /\ UNCHANGED <<varsJournal, varsTracker, varsWeekly, varsCalc>>

ProbeNetFail ==
    /\ probe = "sent"
    /\ probe' = "error"
    /\ UNCHANGED <<currentView, appLoading, stats, dashLoading, dashFetch,
                   dashReply, dashGets, varsShared>>
    /\ UNCHANGED <<varsJournal, varsTracker, varsWeekly, varsCalc>>

\* variant: a failed check leaves the loading screen up
ConnectionTestedFailureBlocks(ok) ==
    [loading |-> ~ok, toast |-> IF ok THEN ToastNone ELSE "connect_failed"]

\* what the continuation of testConnection sets: setLoading(false) in the try
\* and in the catch, toast.error in the catch
ConnectionTested(ok) ==
    [loading |-> FALSE, toast |-> IF ok THEN ToastNone ELSE "connect_failed"]

\* the continuation of testConnection; the first render of the content
\* mounts the current view
TestConnectionDone ==
    /\ probe \in {"ok", "error"}
    /\ probe' = "done"
    /\ appLoading' = ConnectionTested(probe = "ok").loading
    /\ toast' = ConnectionTested(probe = "ok").toast
    /\ SetDashboard(IF ~ConnectionTested(probe = "ok").loading
                       /\ RenderedView(currentView) = "Dashboard"
                    THEN DashboardMount ELSE DashboardGone)
    /\ UNCHANGED <<currentView, dashReply, unhandled>>
    /\ UNCHANGED <<varsJournal, varsTracker, varsWeekly, varsCalc>>

\* setCurrentView(v): the shell renders the view of v; a Dashboard that
\* appears is mounted afresh, one that disappears is dropped with its request
SetCurrentView(v) ==
    /\ currentView' = v
    /\ IF RenderedView(v) = RenderedView(currentView)
       THEN UNCHANGED <<stats, dashLoading, dashFetch, dashGets>>
       ELSE SetDashboard(IF RenderedView(v) = "Dashboard"
                         THEN DashboardMount ELSE DashboardGone)
    /\ toast' = ToastNone
    /\ UNCHANGED <<appLoading, probe, dashReply, unhandled>>
    /\ UNCHANGED <<varsJournal, varsTracker, varsWeekly, varsCalc>>

\* Sidebar button
SidebarClick(v) ==
    /\ ~appLoading
    /\ SetCurrentView(v)

\* variant: no quick action is ever disabled
QuickActionNeverDisabled(i) == FALSE

\* quickActions[i].disabled
QuickActionDisabled(i) == IF i = 0 THEN stats.has_today_journal ELSE FALSE

\* quickActions[i].action
QuickActionTarget(i) == IF i = 0 THEN "journal" ELSE "life-tracker"

\* quick action button of the Dashboard
QuickActionClick(i) ==
    /\ DashboardRendered
    /\ ~QuickActionDisabled(i)
    /\ SetCurrentView(QuickActionTarget(i))

\* the server answers GET /stats/dashboard
DashServe ==
    /\ dashFetch = "sent"
    /\ dashFetch' = "ok"
    /\ dashReply' \in ServerStats
    /\ UNCHANGED <<currentView, appLoading, probe, stats, dashLoading, dashGets,
                   varsShared>>
    /\ UNCHANGED <<varsJournal, varsTracker, varsWeekly, varsCalc>>

DashNetFail ==
    /\ dashFetch = "sent"
    /\ dashFetch' = "error"
    /\ UNCHANGED <<currentView, appLoading, probe, stats, dashLoading, dashReply,
                   dashGets, varsShared>>
    /\ UNCHANGED <<varsJournal, varsTracker, varsWeekly, varsCalc>>

\* the continuation of fetchDashboardStats
FetchDashboardStatsDone ==
    /\ dashFetch \in {"ok", "error"}
    /\ SetDashboard(StatsFetched(dashFetch = "ok", dashReply, DashboardCur))
    /\ toast' = ToastNone
    /\ UNCHANGED <<currentView, appLoading, probe, dashReply, unhandled>>
    /\ UNCHANGED <<varsJournal, varsTracker, varsWeekly, varsCalc>>

----------------------------------------------------------------------------
(* Weekly statistics and the progress bar *)

RECURSIVE SumProgress(_)
SumProgress(data) ==
    IF data = <<>> THEN 0 ELSE Head(data).progress + SumProgress(Tail(data))

RECURSIVE MaxProgressOf(_)
MaxProgressOf(data) ==
    IF Len(data) = 1 THEN data[1].progress
    ELSE LET m == MaxProgressOf(Tail(data)) IN
         IF data[1].progress >= m THEN data[1].progress ELSE m

\* Math.round(n / d) for d > 0: the nearest integer, halves upwards
MathRound(n, d) == (2 * n + d) \div (2 * d)

\* variant: the average is rounded down
getWeekStatsFloor(data) ==
    IF Len(data) = 0
    THEN [total |-> 0, average |-> 0, best |-> 0, daysActive |-> 0]
    ELSE LET total == SumProgress(data)
             daysActive == Cardinality({i \in 1..Len(data) : data[i].progress > 0})
         IN [total |-> total,
             average |-> IF daysActive > 0 THEN total \div 7 ELSE 0,
             best |-> MaxProgressOf(data),
             daysActive |-> daysActive]

\* getWeekStats
getWeekStats(data) ==
    IF Len(data) = 0
    THEN [total |-> 0, average |-> 0, best |-> 0, daysActive |-> 0]
    ELSE LET total == SumProgress(data)
             daysActive == Cardinality({i \in 1..Len(data) : data[i].progress > 0})
         IN [total |-> total,
             average |-> IF daysActive > 0 THEN MathRound(total, 7) ELSE 0,
             best |-> MaxProgressOf(data),
             daysActive |-> daysActive]

\* (progress / task.target_value) * 100, as the exact fraction num / den
ProgressPercentage(p, t) == [num |-> p * 100, den |-> t]

\* Math.min(q, 100) for a fraction with a positive denominator
MathMin100(q) == IF q.num > 100 * q.den THEN [num |-> 100, den |-> 1] ELSE q

\* variant: the width is not limited to 100
ProgressFillWidthUnclamped(p, t) == ProgressPercentage(p, t)

\* the width of the progress-fill, in percent
ProgressFillWidth(p, t) == MathMin100(ProgressPercentage(p, t))

NotRendered == [total |-> -1, average |-> -1, best |-> -1, daysActive |-> -1]
NoWidth == [num |-> -1, den |-> 1]

Week(f) == [i \in 1..7 |-> [date |-> i, progress |-> f[i]]]

\* the statistics cards are rendered from weeklyData
RenderWeekStats ==
    /\ barTarget = 0
    /\ weekStats' = getWeekStats(weeklyData)
    /\ UNCHANGED <<weeklyData, barProgress, barTarget, barWidth>>
    /\ UNCHANGED <<varsJournal, varsTracker, varsWeekly, varsApp, varsShared>>

\* the progress bar of a task card is rendered
RenderProgressBar ==
    /\ barTarget > 0
    /\ barWidth' = ProgressFillWidth(barProgress, barTarget)
    /\ UNCHANGED <<weeklyData, weekStats, barProgress, barTarget>>
    /\ UNCHANGED <<varsJournal, varsTracker, varsWeekly, varsApp, varsShared>>

----------------------------------------------------------------------------
(* Server: life tasks and progress entries *)

Task(id, form) == [id |-> id, name |-> form.name, target_value |-> form.target_value]

NoTask == [id |-> 0, name |-> <<>>, target_value |-> 0]

\* the initial value of taskForm, and what resetTaskForm sets
EmptyForm == [name |-> <<>>, target_value |-> 100]

NoTReq ==
    [kind |-> "none", id |-> 0, form |-> EmptyForm, value |-> 0,
     status |-> "none", list |-> {}, pending |-> {}, results |-> <<>>]

TReq(kind, id, form, value) ==
    [kind |-> kind, id |-> id, form |-> form, value |-> value,
     status |-> "sent", list |-> {}, pending |-> {}, results |-> <<>>]

HasTask(ts, id) == \E t \in ts : t.id = id

\* the progress value the history of a task holds for a date, 0 without one:
\* response.data.find(entry => entry.date === date), then its progress_value
ValueOn(history, date) ==
    IF \E e \in history : e.date = date
    THEN (CHOOSE e \in history : e.date = date).progress_value
    ELSE 0

\* GET /progress-entries/{task_id}: the full history of a task
ServerHistory(progress, id) == {e \in progress : e.task_id = id}

\* POST /progress-entries: at most one entry per task and date
ServerUpsertProgress(progress, id, date, value) ==
    {e \in progress : ~(e.task_id = id /\ e.date = date)}
       \cup {[task_id |-> id, date |-> date, progress_value |-> value]}

\* the server answers a request of the LifeTracker view other than the
\* per-task history requests
ServerTracker(st, r) ==
    CASE r.kind = "GET_TASKS" ->
            [st EXCEPT !.reply = [r EXCEPT !.status = "ok", !.list = st.tasks]]
      [] r.kind = "POST_TASK" ->
            [tasks |-> st.tasks \cup {Task(st.next, r.form)},
             next |-> st.next + 1,
             progress |-> st.progress,
             reply |-> [r EXCEPT !.status = "ok"]]
      [] r.kind = "PUT_TASK" ->
            IF HasTask(st.tasks, r.id)
            THEN [st EXCEPT !.tasks = {t \in st.tasks : t.id # r.id}
                                         \cup {Task(r.id, r.form)},
                            !.reply = [r EXCEPT !.status = "ok"]]
            ELSE [st EXCEPT !.reply = [r EXCEPT !.status = "error"]]
      [] r.kind = "DELETE_TASK" ->
            IF HasTask(st.tasks, r.id)
            THEN [st EXCEPT !.tasks = {t \in st.tasks : t.id # r.id},
                            !.progress = {e \in st.progress : e.task_id # r.id},
                            !.reply = [r EXCEPT !.status = "ok"]]
            ELSE [st EXCEPT !.reply = [r EXCEPT !.status = "error"]]
      [] r.kind = "POST_PROGRESS" ->
            IF HasTask(st.tasks, r.id)
            THEN [st EXCEPT !.progress = ServerUpsertProgress(st.progress, r.id,
                                                               Today, r.value),
                            !.reply = [r EXCEPT !.status = "ok"]]
            ELSE [st EXCEPT !.reply = [r EXCEPT !.status = "error"]]

TrackerServe(s) ==
    /\ tReqs[s].status = "sent"
    /\ tReqs[s].kind # "BATCH"
    /\ tReqs[s].kind = "POST_TASK" => nextTaskId <= MaxTaskIds
    /\ LET out == ServerTracker([tasks |-> serverTasks, next |-> nextTaskId,
                                 progress |-> serverProgress, reply |-> NoTReq],
                                tReqs[s]) IN
          /\ serverTasks' = out.tasks
          /\ nextTaskId' = out.next
          /\ serverProgress' = out.progress
          /\ tReqs' = [tReqs EXCEPT ![s] = out.reply]
    /\ UNCHANGED <<issued, tasks, ltLoading, selectedTask, isAddingTask,
                   taskForm, todayProgress, varsShared>>
    /\ UNCHANGED <<varsJournal, varsWeekly, varsApp, varsCalc>>

TrackerNetFail(s) ==
    /\ tReqs[s].status = "sent"
    /\ tReqs[s].kind # "BATCH"
    /\ tReqs' = [tReqs EXCEPT ![s].status = "error"]
    /\ UNCHANGED <<issued, serverTasks, nextTaskId, serverProgress, tasks, ltLoading,
                   selectedTask, isAddingTask, taskForm, todayProgress,
                   varsShared>>
    /\ UNCHANGED <<varsJournal, varsWeekly, varsApp, varsCalc>>

----------------------------------------------------------------------------
(* LifeTracker view *)

\* the synchronous part of fetchLifeTasks: setLoading(true), axios.get
StartFetchLifeTasks(reqs) == Send(reqs, TReq("GET_TASKS", 0, EmptyForm, 0))

\* fetchLifeTasks as deleteTask(id) calls it after its DELETE has succeeded;
\* the request is the same GET, its id field records the deletion it follows
StartFetchAfterDelete(reqs, id) == Send(reqs, TReq("GET_TASKS", id, EmptyForm, 0))

\* fetchTodayProgress: one history request per task of the list, awaited
\* together
StartFetchTodayProgress(reqs, ts) ==
    Send(reqs, [TReq("BATCH", 0, EmptyForm, 0) EXCEPT
                   !.pending = {t.id : t \in ts}])

\* variant: the value of the newest entry, whatever its date
TodayResultNewest(ok, history) ==
    IF ok /\ history # {}
    THEN (CHOOSE e \in history : \A f \in history : e.date <= f.date).progress_value
    ELSE 0

\* what one history request of fetchTodayProgress resolves to
TodayResult(ok, history) == IF ok THEN ValueOn(history, Today) ELSE 0

\* one history request of fetchTodayProgress is answered or fails
BatchSettleOne(s, id, ok) ==
    /\ tReqs[s].kind = "BATCH"
    /\ id \in tReqs[s].pending
    /\ tReqs' = [tReqs EXCEPT
          ![s].pending = @ \ {id},
          ![s].results = @ @@ (id :> TodayResult(ok, ServerHistory(serverProgress, id)))]
    /\ UNCHANGED <<issued, serverTasks, nextTaskId, serverProgress, tasks, ltLoading,
                   selectedTask, isAddingTask, taskForm, todayProgress,
                   varsShared>>
    /\ UNCHANGED <<varsJournal, varsWeekly, varsApp, varsCalc>>

\* the continuation of fetchTodayProgress, once every request has settled
FetchTodayProgressDone(s) ==
    /\ tReqs[s].kind = "BATCH"
    /\ tReqs[s].pending = {}
    /\ todayProgress' = tReqs[s].results
    /\ tReqs' = [tReqs EXCEPT ![s] = NoTReq]
    /\ toast' = ToastNone
    /\ UNCHANGED <<issued, serverTasks, nextTaskId, serverProgress, tasks, ltLoading,
                   selectedTask, isAddingTask, taskForm, unhandled>>
    /\ UNCHANGED <<varsJournal, varsWeekly, varsApp, varsCalc>>

\* the effect on tasks: a non-empty list starts fetchTodayProgress
TasksEffect(reqs, ts) ==
    IF ts # {} THEN StartFetchTodayProgress(reqs, ts) ELSE reqs

\* variant: the fetched tasks are added to the list
FetchedTasksMerged(r, cur) == IF r.status = "ok" THEN cur \cup r.list ELSE cur

\* what the continuation of fetchLifeTasks sets the list to:
\* setTasks(response.data), nothing in the catch
FetchedTasks(r, cur) == IF r.status = "ok" THEN r.list ELSE cur

\* the continuation of fetchLifeTasks
FetchLifeTasksDone(s) ==
    /\ tReqs[s].kind = "GET_TASKS"
    /\ Settled(tReqs[s])
    /\ IF tReqs[s].status = "ok"
       THEN /\ tasks' = FetchedTasks(tReqs[s], tasks)
            /\ tReqs' = TasksEffect([tReqs EXCEPT ![s] = NoTReq], tReqs[s].list)
            /\ toast' = ToastNone
       ELSE /\ tasks' = FetchedTasks(tReqs[s], tasks)
            /\ tReqs' = [tReqs EXCEPT ![s] = NoTReq]
            /\ toast' = "load_tasks_failed"
    /\ ltLoading' = FALSE
    /\ UNCHANGED <<issued, serverTasks, nextTaskId, serverProgress, selectedTask,
                   isAddingTask, taskForm, todayProgress, unhandled>>
    /\ UNCHANGED <<varsJournal, varsWeekly, varsApp, varsCalc>>

\* one of the two dialogs is open
FormShown == isAddingTask \/ selectedTask # NoTask

\* an open Dialog is modal: the page behind it takes no input
PageReachable == ~FormShown

\* Add Task button: resetTaskForm, setIsAddingTask(true)
AddTaskClick ==
    /\ PageReachable
    /\ isAddingTask' = TRUE
    /\ taskForm' = EmptyForm
    /\ toast' = ToastNone
    /\ UNCHANGED <<issued, serverTasks, nextTaskId, serverProgress, tasks, ltLoading,
                   selectedTask, todayProgress, tReqs, unhandled>>
    /\ UNCHANGED <<varsJournal, varsWeekly, varsApp, varsCalc>>

\* Add Your First Task button of the empty list: setIsAddingTask(true)
AddFirstTaskClick ==
    /\ PageReachable
    /\ tasks = {}
    /\ ~ltLoading
    /\ isAddingTask' = TRUE
    /\ toast' = ToastNone
    /\ UNCHANGED <<issued, serverTasks, nextTaskId, serverProgress, tasks, ltLoading,
                   selectedTask, taskForm, todayProgress, tReqs, unhandled>>
    /\ UNCHANGED <<varsJournal, varsWeekly, varsApp, varsCalc>>

\* Cancel of the add dialog
AddTaskCancel ==
    /\ isAddingTask
    /\ isAddingTask' = FALSE
    /\ toast' = ToastNone
    /\ UNCHANGED <<issued, serverTasks, nextTaskId, serverProgress, tasks, ltLoading,
                   selectedTask, taskForm, todayProgress, tReqs, unhandled>>
    /\ UNCHANGED <<varsJournal, varsWeekly, varsApp, varsCalc>>

\* edit button of a task card: openEditDialog
OpenEditDialog(t) ==
    /\ PageReachable
    /\ t \in tasks
    /\ selectedTask' = t
    /\ taskForm' = [name |-> t.name,
                    target_value |-> IF t.target_value = 0 THEN 100
                                     ELSE t.target_value]
    /\ toast' = ToastNone
    /\ UNCHANGED <<issued, serverTasks, nextTaskId, serverProgress, tasks, ltLoading,
                   isAddingTask, todayProgress, tReqs, unhandled>>
    /\ UNCHANGED <<varsJournal, varsWeekly, varsApp, varsCalc>>

\* Cancel of the edit dialog
EditTaskCancel ==
    /\ selectedTask # NoTask
    /\ selectedTask' = NoTask
    /\ toast' = ToastNone
    /\ UNCHANGED <<issued, serverTasks, nextTaskId, serverProgress, tasks, ltLoading,
                   isAddingTask, taskForm, todayProgress, tReqs, unhandled>>
    /\ UNCHANGED <<varsJournal, varsWeekly, varsApp, varsCalc>>

\* name input of either dialog
TypeTaskName(n) ==
    /\ FormShown
    /\ taskForm' = [taskForm EXCEPT !.name = n]
    /\ toast' = ToastNone
    /\ UNCHANGED <<issued, serverTasks, nextTaskId, serverProgress, tasks, ltLoading,
                   selectedTask, isAddingTask, todayProgress, tReqs, unhandled>>
    /\ UNCHANGED <<varsJournal, varsWeekly, varsApp, varsCalc>>

\* parseInt(e.target.value) || 100
ParsedTarget(v) == IF v.nan \/ v.n = 0 THEN 100 ELSE v.n

\* target input of either dialog
TypeTaskTarget(v) ==
    /\ FormShown
    /\ taskForm' = [taskForm EXCEPT !.target_value = ParsedTarget(v)]
    /\ toast' = ToastNone
    /\ UNCHANGED <<issued, serverTasks, nextTaskId, serverProgress, tasks, ltLoading,
                   selectedTask, isAddingTask, todayProgress, tReqs, unhandled>>
    /\ UNCHANGED <<varsJournal, varsWeekly, varsApp, varsCalc>>

\* variant: only the empty name is rejected
TaskNameRejectedOnlyEmpty(name) == name = <<>>

\* !taskForm.name.trim(): the name test of createTask and updateTask
TaskNameRejected(name) == Trim(name) = <<>>

\* Create Task button: the synchronous part of createTask
CreateTaskClick ==
    /\ isAddingTask
    /\ ~ltLoading
    /\ IF TaskNameRejected(taskForm.name)
       THEN /\ toast' = "task_name_required"
            /\ UNCHANGED <<ltLoading, tReqs, issued>>
       ELSE /\ FreeSlots(tReqs) # {}
            /\ issued < MaxIssued
            /\ issued' = issued + 1
            /\ ltLoading' = TRUE
            /\ tReqs' = Send(tReqs, TReq("POST_TASK", 0, taskForm, 0))
            /\ toast' = ToastNone
    /\ UNCHANGED <<serverTasks, nextTaskId, serverProgress, tasks, selectedTask,
                   isAddingTask, taskForm, todayProgress, unhandled>>
    /\ UNCHANGED <<varsJournal, varsWeekly, varsApp, varsCalc>>

\* variant: the list is fetched again whatever the outcome of the request
RefetchesAfterAnyOutcome(ok) == TRUE

\* whether the continuation of a task mutation calls fetchLifeTasks: the call
\* stands in the try block after the await, so a failed request skips it
RefetchesAfter(ok) == ok

\* the continuation of createTask; fetchLifeTasks sets loading before the
\* finally block of createTask clears it
CreateTaskDone(s) ==
    /\ tReqs[s].kind = "POST_TASK"
    /\ Settled(tReqs[s])
    /\ IF tReqs[s].status = "ok"
       THEN /\ toast' = "task_created"
            /\ isAddingTask' = FALSE
            /\ taskForm' = EmptyForm
       ELSE /\ toast' = "create_failed"
            /\ UNCHANGED <<isAddingTask, taskForm>>
    /\ tReqs' = IF RefetchesAfter(tReqs[s].status = "ok")
                THEN StartFetchLifeTasks([tReqs EXCEPT ![s] = NoTReq])
                ELSE [tReqs EXCEPT ![s] = NoTReq]
    /\ ltLoading' = FALSE
    /\ UNCHANGED <<issued, serverTasks, nextTaskId, serverProgress, tasks, selectedTask,
                   todayProgress, unhandled>>
    /\ UNCHANGED <<varsJournal, varsWeekly, varsApp, varsCalc>>

\* Update Task button: the synchronous part of updateTask
UpdateTaskClick ==
    /\ selectedTask # NoTask
    /\ ~ltLoading
    /\ IF selectedTask = NoTask \/ TaskNameRejected(taskForm.name)
       THEN UNCHANGED <<ltLoading, tReqs, issued>>
       ELSE /\ FreeSlots(tReqs) # {}
            /\ issued < MaxIssued
            /\ issued' = issued + 1
            /\ ltLoading' = TRUE
            /\ tReqs' = Send(tReqs, TReq("PUT_TASK", selectedTask.id, taskForm, 0))
    /\ toast' = ToastNone
    /\ UNCHANGED <<serverTasks, nextTaskId, serverProgress, tasks, selectedTask,
                   isAddingTask, taskForm, todayProgress, unhandled>>
    /\ UNCHANGED <<varsJournal, varsWeekly, varsApp, varsCalc>>

\* the continuation of updateTask
UpdateTaskDone(s) ==
    /\ tReqs[s].kind = "PUT_TASK"
    /\ Settled(tReqs[s])
    /\ IF tReqs[s].status = "ok"
       THEN /\ toast' = "task_updated"
            /\ selectedTask' = NoTask
       ELSE /\ toast' = "update_failed"
            /\ UNCHANGED selectedTask
    /\ tReqs' = IF RefetchesAfter(tReqs[s].status = "ok")
                THEN StartFetchLifeTasks([tReqs EXCEPT ![s] = NoTReq])
                ELSE [tReqs EXCEPT ![s] = NoTReq]
    /\ ltLoading' = FALSE
    /\ UNCHANGED <<issued, serverTasks, nextTaskId, serverProgress, tasks, isAddingTask,
                   taskForm, todayProgress, unhandled>>
    /\ UNCHANGED <<varsJournal, varsWeekly, varsApp, varsCalc>>

\* delete button of a task card: the synchronous part of deleteTask
DeleteTaskClick(t, confirmed) ==
    /\ PageReachable
    /\ t \in tasks
    /\ IF ~confirmed
       THEN UNCHANGED <<ltLoading, tReqs, issued>>
       ELSE /\ FreeSlots(tReqs) # {}
            /\ issued < MaxIssued
            /\ issued' = issued + 1
            /\ ltLoading' = TRUE
            /\ tReqs' = Send(tReqs, TReq("DELETE_TASK", t.id, EmptyForm, 0))
    /\ toast' = ToastNone
    /\ UNCHANGED <<serverTasks, nextTaskId, serverProgress, tasks, selectedTask,
                   isAddingTask, taskForm, todayProgress, unhandled>>
    /\ UNCHANGED <<varsJournal, varsWeekly, varsApp, varsCalc>>

\* the continuation of deleteTask
DeleteTaskDone(s) ==
    /\ tReqs[s].kind = "DELETE_TASK"
    /\ Settled(tReqs[s])
    /\ toast' = IF tReqs[s].status = "ok" THEN "task_deleted" ELSE "delete_task_failed"
    /\ tReqs' = IF RefetchesAfter(tReqs[s].status = "ok")
                THEN StartFetchAfterDelete([tReqs EXCEPT ![s] = NoTReq], tReqs[s].id)
                ELSE [tReqs EXCEPT ![s] = NoTReq]
    /\ ltLoading' = FALSE
    /\ UNCHANGED <<issued, serverTasks, nextTaskId, serverProgress, tasks, selectedTask,
                   isAddingTask, taskForm, todayProgress, unhandled>>
    /\ UNCHANGED <<varsJournal, varsWeekly, varsApp, varsCalc>>

\* todayProgress[task.id] || 0
ProgressOf(map, id) == IF id \in DOMAIN map THEN map[id] ELSE 0

\* the positions of the slider of a task: 0 to task.target_value
SliderValues(t) == {v \in SliderSamples : v <= t.target_value}

\* variant: the new value is put into the map before the request is sent
ProgressOnIssueOptimistic(map, id, value) == (id :> value) @@ map

\* what the synchronous part of updateProgress does to todayProgress: there
\* is no setTodayProgress before the await
ProgressOnIssue(map, id, value) == map

\* what the continuation of updateProgress does to todayProgress:
\* setTodayProgress(prev => ({...prev, [taskId]: value})) after the await
ProgressOnSettle(map, id, value, ok) ==
    IF ok THEN (id :> value) @@ map ELSE map

\* Slider onValueChange: the synchronous part of updateProgress
UpdateProgress(t, v) ==
    /\ PageReachable
    /\ t \in tasks
    /\ v \in SliderValues(t)
    /\ FreeSlots(tReqs) # {}
    /\ issued < MaxIssued
    /\ issued' = issued + 1
    /\ tReqs' = Send(tReqs, TReq("POST_PROGRESS", t.id, EmptyForm, v))
    /\ todayProgress' = ProgressOnIssue(todayProgress, t.id, v)
    /\ toast' = ToastNone
    /\ UNCHANGED <<serverTasks, nextTaskId, serverProgress, tasks, ltLoading,
                   selectedTask, isAddingTask, taskForm, unhandled>>
    /\ UNCHANGED <<varsJournal, varsWeekly, varsApp, varsCalc>>

\* the continuation of updateProgress
UpdateProgressDone(s) ==
    /\ tReqs[s].kind = "POST_PROGRESS"
    /\ Settled(tReqs[s])
    /\ todayProgress' = ProgressOnSettle(todayProgress, tReqs[s].id,
                                         tReqs[s].value, tReqs[s].status = "ok")
    /\ toast' = (IF tReqs[s].status = "ok" THEN "progress_updated"
                 ELSE "progress_failed")
    /\ tReqs' = [tReqs EXCEPT ![s] = NoTReq]
    /\ UNCHANGED <<issued, serverTasks, nextTaskId, serverProgress, tasks, ltLoading,
                   selectedTask, isAddingTask, taskForm, unhandled>>
    /\ UNCHANGED <<varsJournal, varsWeekly, varsApp, varsCalc>>

\* the width of the progress bar of a task card
TaskBarWidth(t) == ProgressFillWidth(ProgressOf(todayProgress, t.id), t.target_value)

----------------------------------------------------------------------------
(* WeeklyProgress view *)

\* Dates are numbered backwards from today: Today is today, Today + n is the
\* day n days ago, Today - n the day n days ahead.

\* the week offsets the week Select offers
WeekOptions == {k \in {0, 1, 2, 3, 4} : k <= MaxWeek}

NoWReq ==
    [kind |-> "none", task |-> 0, week |-> 0, status |-> "none", list |-> {},
     history |-> {}]

WReq(kind, task, week) ==
    [kind |-> kind, task |-> task, week |-> week, status |-> "sent",
     list |-> {}, history |-> {}]

\* the server answers a request of the WeeklyProgress view
ServerWeekly(r) ==
    IF r.kind = "GET_TASKS"
    THEN [r EXCEPT !.status = "ok", !.list = serverTasks]
    ELSE [r EXCEPT !.status = "ok",
                   !.history = ServerHistory(serverProgress, r.task)]

WeeklyServe(s) ==
    /\ wReqs[s].status = "sent"
    /\ wReqs' = [wReqs EXCEPT ![s] = ServerWeekly(wReqs[s])]
    /\ UNCHANGED <<wTasks, wSelectedTask, selectedWeek, wLoading, weekdayToday,
                   varsCalc, varsShared>>
    /\ UNCHANGED <<varsJournal, varsTracker, varsApp>>

WeeklyNetFail(s) ==
    /\ wReqs[s].status = "sent"
    /\ wReqs' = [wReqs EXCEPT ![s].status = "error"]
    /\ UNCHANGED <<wTasks, wSelectedTask, selectedWeek, wLoading, weekdayToday,
                   varsCalc, varsShared>>
    /\ UNCHANGED <<varsJournal, varsTracker, varsApp>>

\* variant: the week starts on Sunday
WeekStartSunday(k) == Today + ((weekdayToday + 1) % 7) + 7 * k

\* startOfWeek(subWeeks(today, k), {weekStartsOn: 1}): the Monday of the week
\* k weeks before the current one
WeekStart(k) == Today + weekdayToday + 7 * k

\* eachDayOfInterval from that Monday to endOfWeek, the Sunday after it
WeekDays(k) == [i \in 1..7 |-> WeekStart(k) - (i - 1)]

\* weekDays.map(...): one record per day, with the value of the entry of that
\* date, 0 without one
WeekSeries(history, k) ==
    [i \in 1..7 |-> [date |-> WeekDays(k)[i],
                     progress |-> ValueOn(history, WeekDays(k)[i])]]

\* the synchronous part of fetchWeeklyProgress, for the task and week of the
\* render that runs the effect
StartFetchWeeklyProgress(reqs, task, week) ==
    Send(reqs, WReq("GET_HISTORY", task, week))

\* useEffect on [selectedTask, selectedWeek, tasks]
WeeklyEffect(reqs, task, week, ts) ==
    IF task # 0 /\ ts # {} THEN StartFetchWeeklyProgress(reqs, task, week)
    ELSE reqs

\* response.data[0]: the first task of the list, the one created first
FirstTask(list) == CHOOSE t \in list : \A u \in list : t.id <= u.id

\* the continuation of fetchTasks, and the effect its state changes run
FetchTasksDone(s) ==
    /\ wReqs[s].kind = "GET_TASKS"
    /\ Settled(wReqs[s])
    /\ IF wReqs[s].status = "ok"
       THEN LET list == wReqs[s].list
                task == IF list # {} THEN FirstTask(list).id ELSE wSelectedTask
            IN /\ wTasks' = list
               /\ wSelectedTask' = task
               /\ wReqs' = WeeklyEffect([wReqs EXCEPT ![s] = NoWReq], task,
                                        selectedWeek, list)
               /\ wLoading' = (task # 0 /\ list # {})
               /\ toast' = ToastNone
       ELSE /\ wReqs' = [wReqs EXCEPT ![s] = NoWReq]
            /\ toast' = "load_tasks_failed"
            /\ UNCHANGED <<wTasks, wSelectedTask, wLoading>>
    /\ UNCHANGED <<selectedWeek, weekdayToday, varsCalc, unhandled>>
    /\ UNCHANGED <<varsJournal, varsTracker, varsApp>>

\* task Select onValueChange: setSelectedTask, then the effect
SelectTask(id) ==
    /\ HasTask(wTasks, id)
    /\ id # wSelectedTask
    /\ FreeSlots(wReqs) # {}
    /\ wSelectedTask' = id
    /\ wReqs' = WeeklyEffect(wReqs, id, selectedWeek, wTasks)
    /\ wLoading' = TRUE
    /\ toast' = ToastNone
    /\ UNCHANGED <<wTasks, selectedWeek, weekdayToday, varsCalc, unhandled>>
    /\ UNCHANGED <<varsJournal, varsTracker, varsApp>>

\* week Select onValueChange: setSelectedWeek(parseInt(value)), then the effect
SelectWeek(k) ==
    /\ wTasks # {}
    /\ k # selectedWeek
    /\ FreeSlots(wReqs) # {}
    /\ selectedWeek' = k
    /\ wReqs' = WeeklyEffect(wReqs, wSelectedTask, k, wTasks)
    /\ wLoading' = (wSelectedTask # 0 \/ wLoading)
    /\ toast' = ToastNone
    /\ UNCHANGED <<wTasks, wSelectedTask, weekdayToday, weekStats, weeklyData,
                   barProgress, barTarget, barWidth, unhandled>>
    /\ UNCHANGED <<varsJournal, varsTracker, varsApp>>

\* the continuation of fetchWeeklyProgress
FetchWeeklyProgressDone(s) ==
    /\ wReqs[s].kind = "GET_HISTORY"
    /\ Settled(wReqs[s])
    /\ IF wReqs[s].status = "ok"
       THEN /\ weeklyData' = WeekSeries(wReqs[s].history, wReqs[s].week)
            /\ toast' = ToastNone
       ELSE /\ weeklyData' = weeklyData
            /\ toast' = "load_weekly_failed"
    /\ wLoading' = FALSE
    /\ wReqs' = [wReqs EXCEPT ![s] = NoWReq]
    /\ UNCHANGED <<wTasks, wSelectedTask, selectedWeek, weekdayToday, weekStats,
                   barProgress, barTarget, barWidth, unhandled>>
    /\ UNCHANGED <<varsJournal, varsTracker, varsApp>>

----------------------------------------------------------------------------
(* Specifications *)

\* the views a specification does not exercise
JournalIdle ==
    /\ journalStore = [d \in Dates |-> NoEntry]
    /\ selectedDate = Today
    /\ journalContent = <<>>
    /\ isEditing = FALSE
    /\ entries = {}
    /\ hasEntry = FALSE
    /\ loading = FALSE
    /\ jReqs = [s \in Slots |-> NoReq]

TrackerIdle ==
    /\ serverTasks = {}
    /\ nextTaskId = 1
    /\ serverProgress = {}
    /\ tasks = {}
    /\ ltLoading = FALSE
    /\ selectedTask = NoTask
    /\ isAddingTask = FALSE
    /\ taskForm = EmptyForm
    /\ todayProgress = <<>>
    /\ tReqs = [s \in Slots |-> NoTReq]
    /\ issued = 0

WeeklyIdle ==
    /\ wTasks = {}
    /\ wSelectedTask = 0
    /\ selectedWeek = 0
    /\ wLoading = FALSE
    /\ wReqs = [s \in Slots |-> NoWReq]
    /\ weekdayToday = 0

AppIdle ==
    /\ currentView = "dashboard"
    /\ appLoading = FALSE
    /\ probe = "done"
    /\ stats = DefaultStats
    /\ dashLoading = FALSE
    /\ dashFetch = "done_ok"
    /\ dashGets = 1
    /\ dashReply = DefaultStats

CalcIdle ==
    /\ weeklyData = <<>>
    /\ weekStats = NotRendered
    /\ barProgress = 0
    /\ barTarget = 0
    /\ barWidth = NoWidth

SharedIdle ==
    /\ toast = ToastNone
    /\ unhandled = FALSE

\* the Journal view after its first render: both mount effects have run
InitJournal ==
    /\ journalStore \in [Dates -> {NoEntry, Entry(<<"a">>)}]
    /\ selectedDate = Today
    /\ journalContent = <<>>
    /\ isEditing = FALSE
    /\ entries = {}
    /\ hasEntry = FALSE
    /\ loading = TRUE
    /\ jReqs = StartFetchEntry(StartFetchEntries([s \in Slots |-> NoReq]), Today)
    /\ TrackerIdle /\ AppIdle /\ CalcIdle /\ WeeklyIdle /\ SharedIdle

NextJournal ==
    \/ \E d \in Dates : SelectDate(d)
    \/ EditClick
    \/ \E c \in Contents : TypeContent(c)
    \/ SaveClick
    \/ \E b \in BOOLEAN : DeleteClick(b)
    \/ \E s \in Slots : JournalServe(s)
    \/ \E s \in Slots : JournalNetFail(s)
    \/ \E s \in Slots : FetchEntryDone(s)
    \/ \E s \in Slots : FetchEntriesDone(s)
    \/ \E s \in Slots : SaveDone(s)
    \/ \E s \in Slots : DeleteDone(s)

SpecJournal == InitJournal /\ [][NextJournal]_vars

\* the Journal view of a user who only picks dates, on a network that loses
\* no request
NextJournalBrowse ==
    \/ \E d \in Dates : SelectDate(d)
    \/ \E s \in Slots : JournalServe(s)
    \/ \E s \in Slots : FetchEntryDone(s)
    \/ \E s \in Slots : FetchEntriesDone(s)

SpecJournalBrowse == InitJournal /\ [][NextJournalBrowse]_vars

\* the App shell after its first render: the connectivity check is in flight
InitApp ==
    /\ currentView = "dashboard"
    /\ appLoading = TRUE
    /\ probe = "sent"
    /\ stats = DashboardGone.stats
    /\ dashLoading = DashboardGone.loading
    /\ dashFetch = DashboardGone.fetch
    /\ dashGets = DashboardGone.gets
    /\ dashReply = DefaultStats
    /\ JournalIdle /\ TrackerIdle /\ CalcIdle /\ WeeklyIdle /\ SharedIdle

NextApp ==
    \/ ProbeServe
    \/ ProbeNetFail
    \/ TestConnectionDone
    \/ \E v \in Views : SidebarClick(v)
    \/ \E i \in {0, 1} : QuickActionClick(i)
    \/ DashServe
    \/ DashNetFail
    \/ FetchDashboardStatsDone

SpecApp == InitApp /\ [][NextApp]_vars

\* inputs of the weekly statistics, or of the progress bar
InitCalc ==
    /\ \/ /\ weeklyData \in {<<>>} \cup {Week(f) : f \in [1..7 -> DayValues]}
          /\ barProgress = 0
          /\ barTarget = 0
       \/ /\ weeklyData = <<>>
          /\ barProgress \in 0..MaxProgress
          /\ barTarget \in 1..MaxTarget
    /\ weekStats = NotRendered
    /\ barWidth = NoWidth
    /\ JournalIdle /\ TrackerIdle /\ AppIdle /\ WeeklyIdle /\ SharedIdle

NextCalc ==
    \/ RenderWeekStats
    \/ RenderProgressBar

SpecCalc == InitCalc /\ [][NextCalc]_vars

\* the LifeTracker view after its first render: fetchLifeTasks is in flight;
\* the server holds no task, or one task with an entry of an earlier day
InitTracker ==
    /\ \/ /\ serverTasks = {}
          /\ nextTaskId = 1
          /\ serverProgress = {}
       \/ /\ serverTasks = {[id |-> 1, name |-> <<"a">>, target_value |-> 50]}
          /\ nextTaskId = 2
          /\ serverProgress = {[task_id |-> 1, date |-> 2, progress_value |-> 100]}
    /\ tasks = {}
    /\ ltLoading = TRUE
    /\ selectedTask = NoTask
    /\ isAddingTask = FALSE
    /\ taskForm = EmptyForm
    /\ todayProgress = <<>>
    /\ tReqs = StartFetchLifeTasks([s \in Slots |-> NoTReq])
    /\ issued = 0
    /\ JournalIdle /\ AppIdle /\ CalcIdle /\ WeeklyIdle /\ SharedIdle

NextTracker ==
    \/ \E s \in Slots : TrackerServe(s)
    \/ \E s \in Slots : TrackerNetFail(s)
    \/ \E s \in Slots, id \in TaskIds, ok \in BOOLEAN : BatchSettleOne(s, id, ok)
    \/ \E s \in Slots : FetchTodayProgressDone(s)
    \/ \E s \in Slots : FetchLifeTasksDone(s)
    \/ AddTaskClick
    \/ AddFirstTaskClick
    \/ AddTaskCancel
    \/ \E t \in tasks : OpenEditDialog(t)
    \/ EditTaskCancel
    \/ \E n \in Contents : TypeTaskName(n)
    \/ \E v \in TypedTargets : TypeTaskTarget(v)
    \/ CreateTaskClick
    \/ \E s \in Slots : CreateTaskDone(s)
    \/ UpdateTaskClick
    \/ \E s \in Slots : UpdateTaskDone(s)
    \/ \E t \in tasks, b \in BOOLEAN : DeleteTaskClick(t, b)
    \/ \E s \in Slots : DeleteTaskDone(s)
    \/ \E t \in tasks, v \in SliderSamples : UpdateProgress(t, v)
    \/ \E s \in Slots : UpdateProgressDone(s)

SpecTracker == InitTracker /\ [][NextTracker]_vars

\* the LifeTracker view on a network that loses no request
NextTrackerReliable ==
    \/ \E s \in Slots : TrackerServe(s)
    \/ \E s \in Slots, id \in TaskIds : BatchSettleOne(s, id, TRUE)
    \/ \E s \in Slots : FetchTodayProgressDone(s)
    \/ \E s \in Slots : FetchLifeTasksDone(s)
    \/ AddTaskClick
    \/ AddFirstTaskClick
    \/ AddTaskCancel
    \/ \E t \in tasks : OpenEditDialog(t)
    \/ EditTaskCancel
    \/ \E n \in Contents : TypeTaskName(n)
    \/ \E v \in TypedTargets : TypeTaskTarget(v)
    \/ CreateTaskClick
    \/ \E s \in Slots : CreateTaskDone(s)
    \/ UpdateTaskClick
    \/ \E s \in Slots : UpdateTaskDone(s)
    \/ \E t \in tasks, b \in BOOLEAN : DeleteTaskClick(t, b)
    \/ \E s \in Slots : DeleteTaskDone(s)
    \/ \E t \in tasks, v \in SliderSamples : UpdateProgress(t, v)
    \/ \E s \in Slots : UpdateProgressDone(s)

SpecTrackerReliable == InitTracker /\ [][NextTrackerReliable]_vars

\* the client state of a LifeTracker view that is not mounted
TrackerClientIdle ==
    /\ tasks = {}
    /\ ltLoading = FALSE
    /\ selectedTask = NoTask
    /\ isAddingTask = FALSE
    /\ taskForm = EmptyForm
    /\ todayProgress = <<>>
    /\ tReqs = [s \in Slots |-> NoTReq]
    /\ issued = 0

\* the WeeklyProgress view after its first render: fetchTasks is in flight;
\* the server holds no task, or two tasks with entries in this week and the
\* week before
InitWeekly ==
    /\ \/ /\ serverTasks = {}
          /\ nextTaskId = 1
          /\ serverProgress = {}
       \/ /\ serverTasks = {[id |-> 1, name |-> <<"a">>, target_value |-> 50],
                            [id |-> 2, name |-> <<"a">>, target_value |-> 100]}
          /\ nextTaskId = 3
          /\ serverProgress =
                {[task_id |-> 1, date |-> Today, progress_value |-> 30],
                 [task_id |-> 1, date |-> Today + 7, progress_value |-> 10],
                 [task_id |-> 2, date |-> Today + 1, progress_value |-> 100]}
    /\ weekdayToday \in 0..6
    /\ wTasks = {}
    /\ wSelectedTask = 0
    /\ selectedWeek = 0
    /\ wLoading = FALSE
    /\ wReqs = Send([s \in Slots |-> NoWReq], WReq("GET_TASKS", 0, 0))
    /\ TrackerClientIdle
    /\ JournalIdle /\ AppIdle /\ CalcIdle /\ SharedIdle

NextWeekly ==
    \/ \E s \in Slots : WeeklyServe(s)
    \/ \E s \in Slots : WeeklyNetFail(s)
    \/ \E s \in Slots : FetchTasksDone(s)
    \/ \E id \in TaskIds : SelectTask(id)
    \/ \E k \in WeekOptions : SelectWeek(k)
    \/ \E s \in Slots : FetchWeeklyProgressDone(s)

SpecWeekly == InitWeekly /\ [][NextWeekly]_vars

\* the WeeklyProgress view on a network that loses no request
NextWeeklyReliable ==
    \/ \E s \in Slots : WeeklyServe(s)
    \/ \E s \in Slots : FetchTasksDone(s)
    \/ \E id \in TaskIds : SelectTask(id)
    \/ \E k \in WeekOptions : SelectWeek(k)
    \/ \E s \in Slots : FetchWeeklyProgressDone(s)

SpecWeeklyReliable == InitWeekly /\ [][NextWeeklyReliable]_vars

----------------------------------------------------------------------------
(* Journal view: properties *)

PendingSaves == {s \in Slots : jReqs[s].kind \in {"POST", "PUT"}}

\* the continuation of the fetch in slot s runs in this step
FetchEntryHandled(s) ==
    /\ jReqs[s].kind = "GET_ENTRY"
    /\ Settled(jReqs[s])
    /\ jReqs'[s] = NoReq

\* C1: a save with empty or whitespace-only content issues no POST or PUT and
\* leaves hasEntry, isEditing and the content as they are; so the body of
\* every POST or PUT in flight has content whose trimmed form is non-empty.
C1_BlankSaveIssuesNothing ==
    /\ [](\A s \in PendingSaves : Trim(jReqs[s].content) # <<>>)
    /\ [][(SaveClick /\ Trim(journalContent) = <<>>) =>
             /\ UNCHANGED <<jReqs, journalStore, hasEntry, isEditing,
                            journalContent>>
             /\ toast' = "entry_empty"]_vars

\* a whitespace-only save has just been turned down
C1_Witness ==
    /\ toast = "entry_empty"
    /\ journalContent # <<>>
    /\ Trim(journalContent) = <<>>
    /\ PendingSaves = {}

\* C2: when the fetch of a selected date is answered with not-found or with an
\* empty body, its continuation leaves isEditing = TRUE, hasEntry = FALSE and
\* empty content and raises no uncaught error; when it is answered with an
\* entry, it leaves isEditing = FALSE, hasEntry = TRUE and that entry's content.
C2_SelectionOutcome ==
    [][\A s \in Slots : FetchEntryHandled(s) =>
          /\ jReqs[s].status \in {"notfound", "empty"} =>
                /\ isEditing' /\ ~hasEntry' /\ journalContent' = <<>>
                /\ ~unhandled'
                /\ toast' = ToastNone
          /\ jReqs[s].status = "ok" =>
                /\ ~isEditing' /\ hasEntry'
                /\ journalContent' = jReqs[s].data
                /\ ~unhandled']_vars

\* a not-found answer has replaced a shown entry by the empty editor
C2_Witness ==
    /\ isEditing /\ ~hasEntry /\ journalContent = <<>>
    /\ ~loading
    /\ selectedDate # Today
    /\ ~journalStore[selectedDate].present
    /\ journalStore[Today].present
    /\ \A s \in Slots : jReqs[s].kind = "none"

\* C3 (as claimed): the server holds at most one entry per date, and a create
\* (POST) is issued only for a date that has no entry at that moment.
C3_CreateOnlyWithoutEntry ==
    [][\A s \in Slots :
          (jReqs'[s].kind = "POST" /\ jReqs'[s] # jReqs[s]
             /\ jReqs'[s].status = "sent")
          => ~journalStore[jReqs'[s].date].present]_vars

\* the fetchJournalEntries calls in flight
EntryListFetches == {s \in Slots : jReqs[s].kind = "LIST"}

\* the continuation of saveJournalEntry runs for slot s
SaveHandled(s) == jReqs[s].kind \in {"POST", "PUT"} /\ SaveDone(s)

\* C17: the continuation of a save that succeeded, create or update, sets
\* isEditing to FALSE and hasEntry to TRUE, leaves the content as it is and
\* issues a fetch of the entry list; the continuation of a save that failed
\* raises the notification and leaves isEditing, hasEntry and the content as
\* they are.
C17_SaveOutcome ==
    [][\A s \in Slots :
          SaveHandled(s) =>
             IF jReqs[s].status = "ok"
             THEN /\ ~isEditing'
                  /\ hasEntry'
                  /\ journalContent' = journalContent
                  /\ \E n \in Slots :
                        /\ n \notin EntryListFetches
                        /\ EntryListFetches' = EntryListFetches \cup {n}
                        /\ jReqs'[n].status = "sent"
             ELSE /\ toast' = "save_failed"
                  /\ UNCHANGED <<isEditing, hasEntry, journalContent>>
                  /\ EntryListFetches' = EntryListFetches]_vars

\* the continuation of deleteJournalEntry runs for slot s
DeleteHandled(s) == jReqs[s].kind = "DELETE" /\ DeleteDone(s)

\* C18: a DELETE is put in flight only by deleteJournalEntry called with
\* hasEntry true and the confirmation accepted, and it is for the selected
\* date; a declined confirmation issues nothing and leaves the content,
\* hasEntry and isEditing as they are; the continuation of a DELETE that
\* succeeded empties the content, sets hasEntry to FALSE and isEditing to
\* TRUE and issues a fetch of the entry list; the continuation of one that
\* failed raises the notification and leaves the three as they are.
C18_DeleteOutcome ==
    /\ [][\A s \in Slots :
            jReqs'[s] # jReqs[s] /\ jReqs'[s].kind = "DELETE" /\ jReqs'[s].status = "sent"
               => /\ hasEntry
                  /\ DeleteClick(TRUE)
                  /\ jReqs'[s].date = selectedDate]_vars
    /\ [][DeleteClick(FALSE) \/ (~hasEntry /\ DeleteClick(TRUE))
             => /\ jReqs' = jReqs
                /\ UNCHANGED <<journalContent, hasEntry, isEditing, loading,
                               journalStore>>]_vars
    /\ [][DeleteClick(TRUE) /\ hasEntry
             => /\ UNCHANGED <<journalContent, hasEntry, isEditing>>
                /\ \E s \in Slots : jReqs[s].kind = "none" /\ jReqs'[s].kind = "DELETE"]_vars
    /\ [][\A s \in Slots :
            DeleteHandled(s) =>
               IF jReqs[s].status = "ok"
               THEN /\ journalContent' = <<>>
                    /\ ~hasEntry'
                    /\ isEditing'
                    /\ \E n \in Slots :
                          /\ n \notin EntryListFetches
                          /\ EntryListFetches' = EntryListFetches \cup {n}
                          /\ jReqs'[n].status = "sent"
               ELSE /\ toast' = "delete_failed"
                    /\ UNCHANGED <<journalContent, hasEntry, isEditing>>
                    /\ EntryListFetches' = EntryListFetches]_vars

\* an entry has just been deleted: the empty editor is shown, the server has
\* no entry for the selected date and the entry list is being fetched again
C18_Witness ==
    /\ toast = "entry_deleted"
    /\ journalContent = <<>> /\ ~hasEntry /\ isEditing
    /\ ~journalStore[selectedDate].present
    /\ \E s \in EntryListFetches : jReqs[s].status = "sent"

\* C8: when the fetch of a selected date fails with anything but not-found,
\* its continuation raises the notification, leaves journalContent, hasEntry
\* and isEditing (and the selection and the entry list) as they were, and sets
\* loading to FALSE.
C8_LoadFailureKeepsState ==
    [][\A s \in Slots :
          (FetchEntryHandled(s) /\ jReqs[s].status = "error") =>
             /\ toast' = "load_entry_failed"
             /\ UNCHANGED <<journalContent, hasEntry, isEditing, selectedDate,
                            entries, journalStore>>
             /\ loading' = FALSE]_vars

\* a failed fetch has left a loaded entry on screen
C8_Witness ==
    /\ toast = "load_entry_failed"
    /\ hasEntry /\ journalContent # <<>>
    /\ ~loading

\* no request of the Journal view is in flight
JournalAtRest == \A s \in Slots : jReqs[s] = NoReq

\* C22 (as claimed): whenever no request of the Journal view is in flight, the
\* Edit control or the Save control is rendered: hasEntry or isEditing is
\* TRUE.
C22_JournalUsable == JournalAtRest => hasEntry \/ isEditing

\* C13: no request is cancelled or tagged: picking a date leaves the requests
\* in flight as they are, a request leaves only through its own continuation,
\* and the continuation of a date fetch applies the response whatever date is
\* selected by then: an entry becomes the shown content with hasEntry set, an
\* absent entry empties the editor.
C13_StaleResponseApplied ==
    /\ [][\A d \in Dates, s \in Slots :
            SelectDate(d) /\ jReqs[s] # NoReq => jReqs'[s] = jReqs[s]]_vars
    /\ [][\A s \in Slots :
            jReqs[s] # NoReq /\ jReqs'[s] = NoReq =>
               FetchEntryDone(s) \/ FetchEntriesDone(s)]_vars
    /\ [][\A s \in Slots :
            FetchEntryDone(s) =>
               /\ jReqs[s].status = "ok" =>
                     journalContent' = jReqs[s].data /\ hasEntry' /\ ~isEditing'
               /\ jReqs[s].status \in {"empty", "notfound"} =>
                     journalContent' = <<>> /\ ~hasEntry' /\ isEditing']_vars

\* nothing is in flight, the selected day has no entry on the server, and the
\* view shows the entry of the other day as the entry of the selected day
C13_Witness ==
    /\ JournalAtRest
    /\ selectedDate = 2
    /\ ~journalStore[2].present
    /\ journalStore[Today].present
    /\ hasEntry /\ ~isEditing
    /\ journalContent = journalStore[Today].content

\* C23 (as claimed): whenever no request of the Journal view is in flight,
\* hasEntry is TRUE exactly when the server holds an entry for the selected
\* date, and the content shown with hasEntry TRUE and isEditing FALSE is the
\* content of that entry.
C23_JournalMatchesServer ==
    JournalAtRest =>
       /\ hasEntry = journalStore[selectedDate].present
       /\ hasEntry /\ ~isEditing =>
             journalContent = journalStore[selectedDate].content

----------------------------------------------------------------------------
(* LifeTracker view: properties *)

TrackerAtRest == \A s \in Slots : tReqs[s] = NoTReq

\* C7 (as claimed): once every request has settled, a listed task with target 50 for which
\* the server holds today's value 30 shows 30 in todayProgress and a bar of
\* 60%.
C7_ProgressScenario ==
    \A t \in tasks :
       /\ t \in serverTasks
       /\ t.target_value = 50
       /\ ValueOn(ServerHistory(serverProgress, t.id), Today) = 30
       /\ TrackerAtRest
       => /\ ProgressOf(todayProgress, t.id) = 30
          /\ TaskBarWidth(t).num = 60 * TaskBarWidth(t).den

\* C12 (as claimed): when the re-fetch that follows a successful deleteTask(id)
\* settles, the task list holds no task with that id; an id the server has
\* given out and deleted never names a task again, and a created task gets an
\* id no task has had.
C12_DeletedTaskGone ==
    /\ [][\A s \in Slots :
            FetchLifeTasksDone(s) /\ tReqs[s].id # 0 =>
               ~HasTask(tasks', tReqs[s].id)]_vars
    /\ [][\A id \in TaskIds :
            id < nextTaskId /\ ~HasTask(serverTasks, id) =>
               ~HasTask(serverTasks', id)]_vars

\* C12 (amended): a successful deleteTask(id) starts a re-fetch of the list;
\* when that re-fetch is answered the task list holds no task with that id,
\* when it fails the list is left as it was; an id the server has given out
\* and deleted never names a task again, and a created task, whatever its
\* name, gets an id no task has had.
C12_DeletedTaskGoneOnRefetch ==
    /\ [][\A s \in Slots :
            DeleteTaskDone(s) /\ tReqs[s].status = "ok" =>
               \E n \in Slots :
                  /\ tReqs'[n].kind = "GET_TASKS"
                  /\ tReqs'[n].status = "sent"
                  /\ tReqs'[n].id = tReqs[s].id
                  /\ tReqs[n] # tReqs'[n]]_vars
    /\ [][\A s \in Slots :
            FetchLifeTasksDone(s) /\ tReqs[s].id # 0 =>
               IF tReqs[s].status = "ok"
               THEN ~HasTask(tasks', tReqs[s].id)
               ELSE tasks' = tasks]_vars
    /\ [][\A id \in TaskIds :
            id < nextTaskId /\ ~HasTask(serverTasks, id) =>
               ~HasTask(serverTasks', id)]_vars
    /\ [][\A s \in Slots :
            TrackerServe(s) /\ tReqs[s].kind = "POST_TASK" =>
               /\ serverTasks' = serverTasks
                                   \cup {Task(nextTaskId, tReqs[s].form)}
               /\ nextTaskId' = nextTaskId + 1]_vars
    /\ [](\A t \in serverTasks \cup tasks : t.id < nextTaskId)

\* task 1 named "a" has been deleted and a task named "a" created after it:
\* the list shows the new task under id 2 and no task 1
C12_Witness ==
    /\ TrackerAtRest
    /\ issued = 2
    /\ nextTaskId = 3
    /\ ~HasTask(serverTasks, 1)
    /\ \E t \in tasks : t.id = 2 /\ t.name = <<"a">>
    /\ ~HasTask(tasks, 1)

\* the fetchTodayProgress calls in flight
Batches == {s \in Slots : tReqs[s].kind = "BATCH"}

\* C14: when a fetched list replaces the task list, a non-empty list starts
\* one fetchTodayProgress with one history request per task of that list and
\* an empty list starts none; a history request that settles leaves
\* todayProgress alone and gives its task today's value of the history, 0
\* when the history has no entry for today and 0 when the request failed,
\* the other requests staying as they are; when all have settled
\* todayProgress is replaced, once, by the map of these values, which has the
\* tasks of that list as its keys.
C14_TodayProgressAggregation ==
    /\ [][\A s \in Slots :
            FetchLifeTasksDone(s) /\ tReqs[s].status = "ok" =>
               IF tReqs[s].list = {}
               THEN Batches' = Batches
               ELSE \E n \in Slots :
                       /\ Batches' = Batches \cup {n} /\ n \notin Batches
                       /\ tReqs'[n].pending = {t.id : t \in tasks'}
                       /\ tReqs'[n].results = <<>>]_vars
    /\ [][\A s \in Slots, id \in TaskIds, ok \in BOOLEAN :
            BatchSettleOne(s, id, ok) =>
               /\ todayProgress' = todayProgress
               /\ tReqs'[s].pending = tReqs[s].pending \ {id}
               /\ DOMAIN tReqs'[s].results = DOMAIN tReqs[s].results \cup {id}
               /\ \A j \in DOMAIN tReqs[s].results :
                     tReqs'[s].results[j] = tReqs[s].results[j]
               /\ IF ok /\ \E e \in serverProgress :
                                e.task_id = id /\ e.date = Today
                  THEN \E e \in serverProgress :
                          /\ e.task_id = id /\ e.date = Today
                          /\ tReqs'[s].results[id] = e.progress_value
                  ELSE tReqs'[s].results[id] = 0]_vars
    /\ [][\A s \in Slots :
            FetchTodayProgressDone(s) =>
               /\ tReqs[s].pending = {}
               /\ todayProgress' = tReqs[s].results
               /\ s \notin Batches']_vars
    /\ [](\A s \in Batches :
             tReqs[s].pending \cap DOMAIN tReqs[s].results = {})

\* both listed tasks have their value of today: the 30 entered for task 1 and
\* 0 for task 2, which has no entry
C14_Witness ==
    /\ TrackerAtRest
    /\ {t.id : t \in tasks} = {1, 2}
    /\ DOMAIN todayProgress = {1, 2}
    /\ todayProgress[1] = 30
    /\ todayProgress[2] = 0
    /\ ValueOn(ServerHistory(serverProgress, 1), Today) = 30

\* the name is empty or consists of blanks only
BlankName(name) == \A i \in 1..Len(name) : name[i] = " "

\* what a rejected task mutation must leave alone
TaskStateKept ==
    /\ tReqs' = tReqs
    /\ tasks' = tasks
    /\ selectedTask' = selectedTask
    /\ taskForm' = taskForm
    /\ isAddingTask' = isAddingTask
    /\ UNCHANGED <<serverTasks, serverProgress>>

\* C15: createTask with an empty or blank name, updateTask with no selected
\* task or with an empty or blank name, and deleteTask with a declined
\* confirmation issue no request and leave the task list, the selected task
\* and the form as they are; a POST is issued only with a name that is not
\* blank, a PUT only with a selected task and a name that is not blank.
C15_TaskMutationPreconditions ==
    /\ [][CreateTaskClick /\ BlankName(taskForm.name) => TaskStateKept]_vars
    /\ [][UpdateTaskClick /\ (selectedTask = NoTask \/ BlankName(taskForm.name))
             => TaskStateKept]_vars
    /\ [][\A t \in tasks : DeleteTaskClick(t, FALSE) => TaskStateKept]_vars
    /\ [][\A s \in Slots :
            tReqs'[s] # tReqs[s] /\ tReqs'[s].kind = "POST_TASK" /\ ~Settled(tReqs'[s])
               => ~BlankName(tReqs'[s].form.name) /\ tReqs'[s].form = taskForm]_vars
    /\ [][\A s \in Slots :
            tReqs'[s] # tReqs[s] /\ tReqs'[s].kind = "PUT_TASK" /\ ~Settled(tReqs'[s])
               => /\ selectedTask # NoTask
                  /\ tReqs'[s].id = selectedTask.id
                  /\ ~BlankName(tReqs'[s].form.name)]_vars
    /\ [][\A s \in Slots :
            tReqs'[s] # tReqs[s] /\ tReqs'[s].kind = "DELETE_TASK" /\ ~Settled(tReqs'[s])
               => \E t \in tasks : t.id = tReqs'[s].id /\ DeleteTaskClick(t, TRUE)]_vars

\* createTask has just rejected a name of one blank: the dialog is still
\* open with the form as typed and no mutation is in flight
C15_Witness ==
    /\ toast = "task_name_required"
    /\ isAddingTask
    /\ taskForm.name = <<" ">>
    /\ tasks # {}
    /\ \A s \in Slots : tReqs[s].kind \notin {"POST_TASK", "PUT_TASK", "DELETE_TASK"}

\* the fetchLifeTasks calls in flight
ListFetches == {s \in Slots : tReqs[s].kind = "GET_TASKS"}

\* the continuation of createTask, updateTask or deleteTask runs for slot s
MutationDone(s) == CreateTaskDone(s) \/ UpdateTaskDone(s) \/ DeleteTaskDone(s)

\* one GET /life-tasks more is in flight after the step
RefetchIssued ==
    \E n \in Slots :
       /\ n \notin ListFetches
       /\ ListFetches' = ListFetches \cup {n}
       /\ tReqs'[n].status = "sent"

\* C16 as stated: the continuation of every task mutation that was sent
\* issues a GET /life-tasks, whether the mutation request succeeded or failed.
C16_RefetchWhateverOutcome ==
    [][\A s \in Slots : MutationDone(s) => RefetchIssued]_vars

\* C16 as the code has it: the continuation of a task mutation issues a
\* GET /life-tasks when the mutation request succeeded; when it failed the
\* failure is reported and no GET /life-tasks is issued.
C16_RefetchAfterSuccess ==
    [][\A s \in Slots :
          MutationDone(s) =>
             IF tReqs[s].status = "ok"
             THEN RefetchIssued
             ELSE /\ ListFetches' = ListFetches
                  /\ toast' \in {"create_failed", "update_failed",
                                  "delete_task_failed"}]_vars

\* an update of a task has succeeded and the list is being fetched again
C16_Witness ==
    /\ toast = "task_updated"
    /\ selectedTask = NoTask
    /\ \E s \in ListFetches : tReqs[s].status = "sent"
    /\ \A s \in Slots : tReqs[s].kind # "PUT_TASK"

\* C21 (as claimed): a progress value the slider of a task sends lies between
\* 0 and the target_value of that task, and in every state the value of today
\* shown for a listed task lies between 0 and the target_value of that task.
C21_ProgressRange ==
    /\ [][\A s \in Slots :
            tReqs'[s] # tReqs[s] /\ tReqs'[s].kind = "POST_PROGRESS"
               /\ tReqs'[s].status = "sent"
               => \E t \in tasks : /\ t.id = tReqs'[s].id
                                   /\ tReqs'[s].value \in 0..t.target_value]_vars
    /\ [](\A t \in tasks :
             ProgressOf(todayProgress, t.id) \in 0..t.target_value)

\* C24 (as claimed): once every request of the LifeTracker view has settled
\* and has been handled, the keys of todayProgress are the ids of the listed
\* tasks and each value is the progress value the server holds for that task
\* and today, 0 when it holds none.
C24_TodayProgressMatchesServer ==
    TrackerAtRest =>
       /\ DOMAIN todayProgress = {t.id : t \in tasks}
       /\ \A t \in tasks :
             todayProgress[t.id] = ValueOn(ServerHistory(serverProgress, t.id), Today)

\* the requests in flight whose function set loading of the Journal view
JournalLoadingRequests ==
    {s \in Slots : jReqs[s].kind \in {"GET_ENTRY", "POST", "PUT", "DELETE"}}

\* the requests in flight whose function set loading of the LifeTracker view
TrackerLoadingRequests ==
    {s \in Slots : tReqs[s].kind \in {"GET_TASKS", "POST_TASK", "PUT_TASK",
                                        "DELETE_TASK"}}

\* C25 (as claimed): while a date fetch, save or delete of the Journal view is
\* in flight its loading flag is TRUE, and while a list fetch or a task
\* create, update or delete of the LifeTracker view is in flight its loading
\* flag is TRUE; with none of them in flight the flag is FALSE.
C25_LoadingTracksRequests ==
    /\ loading = (JournalLoadingRequests # {})
    /\ ltLoading = (TrackerLoadingRequests # {})

----------------------------------------------------------------------------
(* WeeklyProgress view: properties *)

\* no request of the WeeklyProgress view is in flight
WeeklyAtRest == \A s \in Slots : wReqs[s] = NoWReq

\* a history request that a step has put into slot s
WeeklyIssued(s) == wReqs[s] = NoWReq /\ wReqs'[s].kind = "GET_HISTORY"

\* C19: a history request is issued for the selected task and week offset;
\* when its response is handled, weeklyData becomes seven records: the first
\* for the Monday of the week that many weeks before the current one, each
\* next for the following day, up to the Sunday; the progress of a record is
\* the value of the entry of the history of that task with that date, or 0
\* when there is none.
C19_WeeklySeries ==
    /\ [][\A s \in Slots :
            WeeklyIssued(s) =>
               /\ wReqs'[s].task = wSelectedTask' /\ wSelectedTask' # 0
               /\ wReqs'[s].week = selectedWeek'
               /\ selectedWeek' \in {0, 1, 2, 3, 4}]_vars
    /\ [][\A s \in Slots :
            FetchWeeklyProgressDone(s) /\ wReqs[s].status = "ok" =>
               LET k == wReqs[s].week
                   h == wReqs[s].history
                   d(i) == weeklyData'[i].date
               IN /\ Len(weeklyData') = 7
                  /\ \A e \in h : e.task_id = wReqs[s].task
                  /\ d(1) - Today \in (7 * k)..(7 * k + 6)
                  /\ (d(1) - Today - weekdayToday) % 7 = 0
                  /\ \A i \in 1..6 : d(i + 1) = d(i) - 1
                  /\ \A i \in 1..7 :
                        \/ \E e \in h : /\ e.date = d(i)
                                         /\ weeklyData'[i].progress = e.progress_value
                        \/ /\ \A e \in h : e.date # d(i)
                           /\ weeklyData'[i].progress = 0]_vars

\* the series of task 1 for last week is shown: it holds the 10 entered seven
\* days ago and nothing of this week
C19_Witness ==
    /\ WeeklyAtRest
    /\ wSelectedTask = 1
    /\ selectedWeek = 1
    /\ Len(weeklyData) = 7
    /\ \E i \in 1..7 : weeklyData[i].date = Today + 7 /\ weeklyData[i].progress = 10
    /\ \A i \in 1..7 : weeklyData[i].date # Today

\* C20 (as claimed): a change of the selected task or of the week offset, with
\* a task selected and a non-empty list, issues a history request for the new
\* selection; once every request has been answered and handled, weeklyData is
\* the series of the selected task and week offset.
C20_SeriesOfSelection ==
    /\ [][\A s \in Slots :
            WeeklyIssued(s) =>
               wReqs'[s].task = wSelectedTask' /\ wReqs'[s].week = selectedWeek']_vars
    /\ [](WeeklyAtRest /\ wSelectedTask # 0 /\ wTasks # {} =>
             weeklyData = WeekSeries(ServerHistory(serverProgress, wSelectedTask),
                                     selectedWeek))

----------------------------------------------------------------------------
(* Weekly statistics and progress bar: properties *)

WeekRendered == weekStats # NotRendered /\ Len(weeklyData) = 7

DaySum ==
    weeklyData[1].progress + weeklyData[2].progress + weeklyData[3].progress
    + weeklyData[4].progress + weeklyData[5].progress + weeklyData[6].progress
    + weeklyData[7].progress

WeekFacts ==
    /\ weekStats.total = DaySum
    /\ \E i \in 1..7 : weekStats.best = weeklyData[i].progress
    /\ \A i \in 1..7 : weeklyData[i].progress <= weekStats.best
    /\ weekStats.daysActive = Cardinality({i \in 1..7 : weeklyData[i].progress > 0})
    /\ weeklyData = Week(<<10, 0, 20, 0, 0, 5, 0>>) =>
          weekStats = [total |-> 35, average |-> 5, best |-> 20, daysActive |-> 3]

\* C5 (as claimed): for seven daily values total is their sum, average is the
\* sum divided by 7, best is the largest value and the active-day count is the
\* number of positive values.
C5_AverageIsSumOverSeven ==
    WeekRendered => WeekFacts /\ 7 * weekStats.average = DaySum

\* C5 (amended): as above, but average is the sum divided by 7 rounded to the
\* nearest integer (Math.round), the divisor being 7 however many days are zero.
C5_AverageIsRoundedSumOverSeven ==
    WeekRendered =>
       /\ WeekFacts
       /\ 2 * (7 * weekStats.average - DaySum) <= 7
       /\ 2 * (DaySum - 7 * weekStats.average) < 7

\* a week of 25 in total shows an average of 4
C5_Witness ==
    /\ WeekRendered
    /\ weekStats.total = 25
    /\ weekStats.average = 4
    /\ weekStats.daysActive = 2

\* C6: for a positive target t and progress p >= 0 the rendered width is
\* min(100, 100 * p / t): 100 * p / t below the target, exactly 100 from the
\* target on, 0 for p = 0, and never below 0 or above 100.
C6_ProgressBarWidth ==
    barWidth # NoWidth =>
       /\ barWidth.den > 0
       /\ barProgress < barTarget =>
             barWidth.num * barTarget = 100 * barProgress * barWidth.den
       /\ barProgress >= barTarget => barWidth.num = 100 * barWidth.den
       /\ barProgress = 0 => barWidth.num = 0
       /\ barWidth.num >= 0
       /\ barWidth.num <= 100 * barWidth.den

\* a bar is rendered for progress beyond the target
C6_Witness ==
    /\ barWidth # NoWidth
    /\ barProgress > barTarget
    /\ barWidth.num = 100 * barWidth.den

----------------------------------------------------------------------------
(* App shell and Dashboard: properties *)

\* C9: a mounted Dashboard has issued exactly one GET /stats/dashboard;
\* loading is TRUE exactly while that request has not settled; after a failure
\* the stats are the defaults, loading is FALSE and no request was issued again.
C9_DashboardLoadsOnce ==
    DashboardMounted =>
       /\ dashGets = 1
       /\ dashLoading <=> dashFetch \in {"sent", "ok", "error"}
       /\ dashFetch = "done_failed" => stats = DefaultStats /\ ~dashLoading

\* the request of the mounted Dashboard has failed
C9_Witness ==
    /\ DashboardMounted
    /\ dashFetch = "done_failed"
    /\ ~dashLoading
    /\ stats = DefaultStats

\* C10: on the rendered Dashboard the write-journal quick action can be used
\* exactly when stats.has_today_journal is FALSE, so it never switches the
\* view to the journal while has_today_journal is TRUE; the life-tracker quick
\* action can always be used.
C10_WriteJournalShortcut ==
    /\ [](DashboardRendered =>
             /\ (ENABLED QuickActionClick(0)) <=> ~stats.has_today_journal
             /\ ENABLED QuickActionClick(1))
    /\ [][QuickActionClick(0) =>
             ~stats.has_today_journal /\ currentView' = "journal"]_vars
    /\ [][QuickActionClick(1) => currentView' = "life-tracker"]_vars

\* the Dashboard is shown for a day that has its journal entry
C10_Witness ==
    /\ DashboardRendered
    /\ stats.has_today_journal
    /\ dashFetch = "done_ok"

\* C11: the connectivity check is issued once, at startup, and never again;
\* while it is pending the loading screen is shown, the view selector is
\* 'dashboard' and no view is mounted, so no view has issued a request; once
\* it is handled, ok or failed, loading is false for good, the view rendered
\* is Journal for 'journal', LifeTracker for 'life-tracker' and Dashboard
\* otherwise, the Dashboard being mounted exactly when it is the rendered
\* view; a failure is reported by the one step that handles it, and every
\* view can be chosen afterwards.
C11_AppShell ==
    /\ [](appLoading <=> probe \in {"sent", "ok", "error"})
    /\ [](appLoading =>
             /\ currentView = "dashboard"
             /\ dashFetch = "none" /\ dashGets = 0
             /\ \A s \in Slots : jReqs[s] = NoReq /\ tReqs[s] = NoTReq)
    /\ [](~appLoading =>
             /\ probe = "done"
             /\ currentView = "journal" => RenderedView(currentView) = "Journal"
             /\ currentView = "life-tracker" =>
                   RenderedView(currentView) = "LifeTracker"
             /\ currentView = "dashboard" =>
                   RenderedView(currentView) = "Dashboard"
             /\ (dashFetch # "none") <=> RenderedView(currentView) = "Dashboard"
             /\ \A v \in Views : ENABLED SidebarClick(v))
    /\ [][probe' # probe => probe # "done" /\ probe' # "sent"]_vars
    /\ [][/\ probe = "error" /\ probe' = "done" => toast' = "connect_failed"
          /\ toast' = "connect_failed" /\ toast # "connect_failed" =>
                probe = "error" /\ probe' = "done"]_vars

\* the failed connectivity check has just been handled: the failure is
\* reported and the Dashboard is mounted
C11_Witness ==
    /\ probe = "done"
    /\ toast = "connect_failed"
    /\ ~appLoading
    /\ DashboardMounted
    /\ dashFetch = "sent"

=============================================================================
